---- MODULE Spec2Model ----
(* Slotted-page storage core of reevik/teleport: the page codec and the    *)
(* page manager of src/paging.rs, with the byte helpers of src/types.rs.   *)
(* A page is its 4096-byte buffer; every header field and every record is  *)
(* read from and written to that buffer as the code does it.               *)
EXTENDS Integers, Sequences, FiniteSets, TLC

(***************************************************************************)
(* Program constants (src/paging.rs:15-54, 75-76)                          *)
(***************************************************************************)
ZERO == 0
PAGE_SIZE == 4096
PAGE_SIZE_USIZE == PAGE_SIZE
U16_MOD == 65536

SIZE_NUM_OF_SLOTS == 2
SIZE_PAGE_ID == 2
SIZE_PAGE_TYPE == 1
SIZE_FLAGS == 1
SIZE_LEFT_MOST == 2
SIZE_LEFT_SIBLING == 2
SIZE_RIGHT_SIBLING == 2
SIZE_PARENT_PAGE_ID == 2
SIZE_FREE_START == 2
SIZE_FREE_END == 2
SIZE_OF_SLOT_TABLE_ITEM == 2
SIZE_OFFSET == 2

TOTAL_HEADER_SIZE ==
    SIZE_FLAGS + SIZE_RIGHT_SIBLING + SIZE_LEFT_SIBLING + SIZE_LEFT_MOST
    + SIZE_PARENT_PAGE_ID + SIZE_PAGE_ID + SIZE_PAGE_TYPE + SIZE_NUM_OF_SLOTS
    + SIZE_FREE_START + SIZE_FREE_END

OFFSET_NUM_OF_SLOTS == 0
OFFSET_PAGE_ID == OFFSET_NUM_OF_SLOTS + SIZE_NUM_OF_SLOTS
OFFSET_PAGE_TYPE == OFFSET_PAGE_ID + SIZE_PAGE_ID
OFFSET_FLAGS == OFFSET_PAGE_TYPE + SIZE_PAGE_TYPE
OFFSET_LEFT_MOST == OFFSET_FLAGS + SIZE_FLAGS
OFFSET_LEFT_SIBLING == OFFSET_LEFT_MOST + SIZE_LEFT_MOST
OFFSET_RIGHT_SIBLING == OFFSET_LEFT_SIBLING + SIZE_LEFT_SIBLING
OFFSET_PARENT_PAGE_ID == OFFSET_RIGHT_SIBLING + SIZE_RIGHT_SIBLING
OFFSET_FREE_START == OFFSET_PARENT_PAGE_ID + SIZE_PARENT_PAGE_ID
OFFSET_FREE_END == OFFSET_FREE_START + SIZE_FREE_START

DATA_PAGE == 0
INNER_PAGE == 1

\* impl From<u8> for PageType (src/paging.rs:66-73)
PageType_from(value) == IF value = 0 THEN "INNER" ELSE "LEAF"

\* PayloadType discriminants (src/types.rs:155-163)
Str == 1
U32 == 2
U16 == 3

(***************************************************************************)
(* Byte helpers.  A buffer is a sequence of bytes; the byte at offset o of *)
(* the code is element o + 1 of the sequence.                              *)
(***************************************************************************)
Min(a, b) == IF a <= b THEN a ELSE b

\* &buf[a..b]
Slice(buf, a, b) == SubSeq(buf, a + 1, b)

\* buf[off..off + len].copy_from_slice(bytes)
CopyFromSlice(buf, off, bytes) ==
    SubSeq(buf, 1, off) \o bytes \o SubSeq(buf, off + Len(bytes) + 1, Len(buf))

\* u16::to_le_bytes through ToLeBytes / PagePayload for o16
o16_to_bytes(v) == << v % 256, (v \div 256) % 256 >>

\* FromLeBytes for o16
o16_from_bytes(b) == b[1] + 256 * b[2]

\* Page::read_le::<o16, 2> on an offset that lies inside the buffer
read_le(buf, offset) == o16_from_bytes(Slice(buf, offset, offset + 2))

\* Page::read_le::<u8, 1>
read_le_u8(buf, offset) == buf[offset + 1]

\* Page::write_le::<o16, 2>
write_le(buf, offset, value) == CopyFromSlice(buf, offset, o16_to_bytes(value))

\* Page::write_le::<u8, 1>
write_le_u8(buf, offset, value) == CopyFromSlice(buf, offset, << value % 256 >>)

\* the slice buf[offset..offset + n] exists (otherwise indexing panics)
InBuffer(buf, offset, n) == offset + n <= Len(buf)

(***************************************************************************)
(* Header accessors (src/paging.rs:348-469)                                *)
(***************************************************************************)
num_of_slots(buf) == read_le(buf, OFFSET_NUM_OF_SLOTS)
set_num_of_slots(buf, num) == write_le(buf, OFFSET_NUM_OF_SLOTS, num)
page_id(buf) == read_le(buf, OFFSET_PAGE_ID)
set_page_id(buf, num) == write_le(buf, OFFSET_PAGE_ID, num)
page_type(buf) == read_le_u8(buf, OFFSET_PAGE_TYPE)
set_page_type(buf, num) == write_le_u8(buf, OFFSET_PAGE_TYPE, num)
flags(buf) == read_le_u8(buf, OFFSET_FLAGS)
set_flags(buf, num) == write_le_u8(buf, OFFSET_FLAGS, num)
left_most_page_id(buf) == read_le(buf, OFFSET_LEFT_MOST)
set_left_most_page_id(buf, num) == write_le(buf, OFFSET_LEFT_MOST, num)
left_sibling(buf) == read_le(buf, OFFSET_LEFT_SIBLING)
set_left_sibling(buf, num) == write_le(buf, OFFSET_LEFT_SIBLING, num)
right_sibling(buf) == read_le(buf, OFFSET_RIGHT_SIBLING)
set_right_sibling(buf, num) == write_le(buf, OFFSET_RIGHT_SIBLING, num)
parent(buf) == read_le(buf, OFFSET_PARENT_PAGE_ID)
set_parent(buf, num) == write_le(buf, OFFSET_PARENT_PAGE_ID, num)
free_start(buf) == read_le(buf, OFFSET_FREE_START)
set_free_start(buf, num) == write_le(buf, OFFSET_FREE_START, num)
free_end(buf) == read_le(buf, OFFSET_FREE_END)
set_free_end(buf, num) == write_le(buf, OFFSET_FREE_END, num)

\* Page::new up to and including set_page_type (src/paging.rs:80-92); the
\* page id is written by the step that reads NEXT_PAGE_ID.
\* a header that leaves two bytes unused before the slot table
NewBuffer_padded(ptype) ==
    LET b0 == [i \in 1..PAGE_SIZE_USIZE |-> 0]
        b7 == set_free_start(b0, TOTAL_HEADER_SIZE + 2)
        b8 == set_free_end(b7, PAGE_SIZE)
    IN  set_page_type(b8, ptype)

NewBuffer(ptype) ==
    LET b0 == [i \in 1..PAGE_SIZE_USIZE |-> 0]
        b1 == set_flags(b0, 0)
        b2 == set_left_most_page_id(b1, ZERO)
        b3 == set_right_sibling(b2, ZERO)
        b4 == set_left_sibling(b3, ZERO)
        b5 == set_parent(b4, ZERO)
        b6 == set_num_of_slots(b5, ZERO)
        b7 == set_free_start(b6, TOTAL_HEADER_SIZE)
        b8 == set_free_end(b7, PAGE_SIZE)
    IN  set_page_type(b8, ptype)

(***************************************************************************)
(* Payload (src/types.rs:167-237): the bytes, the read cursor and the tag. *)
(***************************************************************************)
Payload(bytes, ptype) == [buffer |-> bytes, cursor_pos |-> 0, payload_type |-> ptype]

\* Payload::len
payload_len(p) == Len(p.buffer) - p.cursor_pos

\* impl Read for Payload, called with a buffer of n bytes; n never exceeds
\* the bytes left at the two call sites, so copy_from_slice gets equal lengths.
payload_read(p, n) ==
    LET available == Min(n, Len(p.buffer) - p.cursor_pos)
    IN  IF available = 0
        THEN [bytes |-> << >>, payload |-> p]
        ELSE [bytes |-> SubSeq(p.buffer, p.cursor_pos + 1, p.cursor_pos + available),
              payload |-> [p EXCEPT !.cursor_pos = p.cursor_pos + n]]

(***************************************************************************)
(* Arithmetic.  dbg is the build profile: TRUE is a debug build (overflow  *)
(* checks and debug assertions on: an overflow panics), FALSE is a release *)
(* build (the value wraps, debug_assert! is compiled out).                 *)
(***************************************************************************)
Ok(v) == [st |-> "ok", v |-> v]
Panic == [st |-> "panic", v |-> 0]

\* impl Sub for OffsetType<u16> (src/types.rs:45-54)
o16_sub(a, b, dbg) ==
    IF a >= b THEN Ok(a - b)
    ELSE IF dbg THEN Panic ELSE Ok((a - b) % U16_MOD)

\* o16 - usize, used by add_slot and max_available_payload_size_in_overflow_page
o16_sub_usize(a, n, dbg) ==
    IF a >= n THEN Ok(a - n)
    ELSE IF dbg THEN Panic ELSE Ok((a - n) % U16_MOD)

\* o16 * o16, used by io::write for the file offset of a page: page k is at
\* offset k * PAGE_SIZE
o16_mul(a, b) == a * b

\* impl Add<i32> for o16 (src/types.rs:67-74)
o16_add_i32(a, n, dbg) ==
    IF a + n < U16_MOD THEN Ok(a + n)
    ELSE IF dbg THEN Panic ELSE Ok((a + n) % U16_MOD)

\* Page::free_size
free_size(buf, dbg) == o16_sub(free_end(buf), free_start(buf), dbg)

\* Page::slot_size: the sum has to fit an o16, expect("Too many pages")
slot_size(key_len, pl_len) ==
    LET n == 2 * SIZE_OFFSET + 2 * SIZE_FLAGS + key_len + pl_len
    IN  IF n < U16_MOD THEN Ok(n) ELSE Panic

(***************************************************************************)
(* Page::add_slot (src/paging.rs:316-326).  The result carries the buffer  *)
(* as it is when the call returns or panics.                               *)
(***************************************************************************)
\* the record is copied in but free_end stays where it was
add_slot_keeps_free_end(buf, slot, dbg) ==
    LET fe  == free_end(buf)
        sub == o16_sub_usize(fe, Len(slot), dbg)
    IN  IF sub.st = "panic" THEN [st |-> "panic", buf |-> buf, v |-> 0]
        ELSE IF sub.v > fe \/ fe > Len(buf) \/ fe - sub.v # Len(slot)
        THEN [st |-> "panic", buf |-> buf, v |-> 0]
        ELSE [st |-> "ok", buf |-> CopyFromSlice(buf, sub.v, slot), v |-> sub.v]

add_slot(buf, slot, dbg) ==
    LET fe  == free_end(buf)
        sub == o16_sub_usize(fe, Len(slot), dbg)
    IN  IF sub.st = "panic" THEN [st |-> "panic", buf |-> buf, v |-> 0]
        ELSE IF sub.v > fe \/ fe > Len(buf) \/ fe - sub.v # Len(slot)
        THEN [st |-> "panic", buf |-> buf, v |-> 0]
        ELSE LET b1 == CopyFromSlice(buf, sub.v, slot)
                 b2 == set_free_end(b1, sub.v)
             IN  IF dbg /\ ~(free_start(b2) <= free_end(b2))
                 THEN [st |-> "panic", buf |-> b2, v |-> 0]
                 ELSE [st |-> "ok", buf |-> b2, v |-> sub.v]

\* the slot entry is written but free_start is not advanced
add_to_slot_table_stuck(buf, new_free_end, dbg) ==
    LET fs == free_start(buf)
    IN  IF ~InBuffer(buf, fs, SIZE_OF_SLOT_TABLE_ITEM)
        THEN [st |-> "panic", buf |-> buf]
        ELSE LET b1 == CopyFromSlice(buf, fs, o16_to_bytes(new_free_end))
                 n  == o16_add_i32(num_of_slots(b1), 1, dbg)
             IN  IF n.st = "panic" THEN [st |-> "panic", buf |-> b1]
                 ELSE [st |-> "ok", buf |-> set_num_of_slots(b1, n.v)]

(***************************************************************************)
(* Page::add_to_slot_table (src/paging.rs:232-243)                         *)
(***************************************************************************)
add_to_slot_table(buf, new_free_end, dbg) ==
    LET fs == free_start(buf)
    IN  IF ~InBuffer(buf, fs, SIZE_OF_SLOT_TABLE_ITEM)
        THEN [st |-> "panic", buf |-> buf]
        ELSE LET b1 == CopyFromSlice(buf, fs, o16_to_bytes(new_free_end))
                 b2 == set_free_start(b1, fs + SIZE_OF_SLOT_TABLE_ITEM)
                 n  == o16_add_i32(num_of_slots(b2), 1, dbg)
             IN  IF n.st = "panic" THEN [st |-> "panic", buf |-> b2]
                 ELSE LET b3 == set_num_of_slots(b2, n.v)
                      IN  IF dbg /\ ~(free_start(b3) <= free_end(b3))
                          THEN [st |-> "panic", buf |-> b3]
                          ELSE [st |-> "ok", buf |-> b3]

(***************************************************************************)
(* Page::add_key_data (src/paging.rs:136-170).  header_size is the local   *)
(* of line 150.  The usize subtraction of line 152 panics in a debug build *)
(* and wraps to a huge value in a release build, where min() then picks    *)
(* the whole payload.  slot_size panics before either try_into()? of lines *)
(* 158-159 could fail, so the function has no Err outcome.                 *)
(***************************************************************************)
\* the slot entry counted a second time
header_size_twice == 3 * SIZE_OFFSET + 2 * SIZE_FLAGS + SIZE_OF_SLOT_TABLE_ITEM

header_size == 3 * SIZE_OFFSET + 2 * SIZE_FLAGS

add_key_data(buf, key, payload, dbg) ==
    LET key_buf      == key.buffer
        key_buf_size == Len(key_buf)
        payload_size == payload_len(payload)
        fsz          == free_size(buf, dbg)
        Fail(b, p)   == [st |-> "panic", buf |-> b, payload |-> p]
    IN  IF fsz.st = "panic" THEN Fail(buf, payload)
        ELSE IF fsz.v < header_size + key_buf_size /\ dbg THEN Fail(buf, payload)
        ELSE
        LET available_net_free_space ==
                IF fsz.v >= header_size + key_buf_size
                THEN fsz.v - header_size - key_buf_size
                ELSE payload_size
            rd       == payload_read(payload, Min(available_net_free_space, payload_size))
            read_buf == rd.bytes
            ssz      == slot_size(key_buf_size, payload_size)
        IN  IF ssz.st = "panic" THEN Fail(buf, rd.payload)
            ELSE
            LET slot == o16_to_bytes(payload_size) \o << payload.payload_type >>
                        \o o16_to_bytes(key_buf_size) \o << Str >>
                        \o key_buf \o read_buf
                as   == add_slot(buf, slot, dbg)
            IN  IF as.st = "panic" THEN Fail(as.buf, rd.payload)
                ELSE LET at == add_to_slot_table(as.buf, as.v, dbg)
                     IN  [st |-> at.st, buf |-> at.buf, payload |-> rd.payload]

\* Page::add_key_ref (src/paging.rs:128-133): the residual is dropped
add_key_ref(buf, key, payload, dbg) == add_key_data(buf, key, payload, dbg)

(***************************************************************************)
(* Page::add_overflow_data (src/paging.rs:198-217) with                    *)
(* max_available_payload_size_in_overflow_page (219-221)                   *)
\* only the slot entry is reserved, not the length field of the record
max_available_payload_size_one_item(buf, dbg) ==
    LET fsz == free_size(buf, dbg)
    IN  IF fsz.st = "panic" THEN Panic
        ELSE o16_sub_usize(fsz.v, SIZE_OF_SLOT_TABLE_ITEM, dbg)

(***************************************************************************)
max_available_payload_size_in_overflow_page(buf, dbg) ==
    LET fsz == free_size(buf, dbg)
    IN  IF fsz.st = "panic" THEN Panic
        ELSE o16_sub_usize(fsz.v, 2 * SIZE_OF_SLOT_TABLE_ITEM, dbg)

add_overflow_data(buf, payload, dbg) ==
    LET mx == max_available_payload_size_in_overflow_page(buf, dbg)
    IN  IF mx.st = "panic" THEN [st |-> "panic", buf |-> buf, payload |-> payload]
        ELSE
        LET copy_size == Min(payload_len(payload), mx.v)
            rd        == payload_read(payload, copy_size)
            slot      == o16_to_bytes(copy_size) \o rd.bytes
            as        == add_slot(buf, slot, dbg)
        IN  IF as.st = "panic" THEN [st |-> "panic", buf |-> as.buf, payload |-> rd.payload]
            ELSE LET at == add_to_slot_table(as.buf, as.v, dbg)
                 IN  [st |-> at.st, buf |-> at.buf, payload |-> rd.payload]

(***************************************************************************)
(* String::from_utf8_lossy, as the stringify closure of line 282 uses it:  *)
(* well-formed UTF-8 is kept, every maximal ill-formed part becomes U+FFFD *)
(* (bytes EF BF BD).                                                       *)
(***************************************************************************)
REPLACEMENT == << 239, 191, 189 >>

IsCont(b) == b >= 128 /\ b <= 191

\* number of bytes of the well-formed or ill-formed part starting at b[i],
\* and whether it is well formed
Utf8Part(b, i) ==
    LET n   == Len(b)
        b0  == b[i]
        At(j) == IF j <= n THEN b[j] ELSE 0
        lo2 == IF b0 = 224 THEN 160 ELSE IF b0 = 240 THEN 144 ELSE 128
        hi2 == IF b0 = 237 THEN 159 ELSE IF b0 = 244 THEN 143 ELSE 191
        need == IF b0 >= 194 /\ b0 <= 223 THEN 2
                ELSE IF b0 >= 224 /\ b0 <= 239 THEN 3
                ELSE IF b0 >= 240 /\ b0 <= 244 THEN 4 ELSE 0
        ok2 == At(i + 1) >= lo2 /\ At(i + 1) <= hi2
        ok3 == IsCont(At(i + 2))
        ok4 == IsCont(At(i + 3))
    IN  IF need = 0 THEN [len |-> 1, ok |-> FALSE]
        ELSE IF ~ok2 THEN [len |-> 1, ok |-> FALSE]
        ELSE IF need = 2 THEN [len |-> 2, ok |-> TRUE]
        ELSE IF ~ok3 THEN [len |-> 2, ok |-> FALSE]
        ELSE IF need = 3 THEN [len |-> 3, ok |-> TRUE]
        ELSE IF ~ok4 THEN [len |-> 3, ok |-> FALSE]
        ELSE [len |-> 4, ok |-> TRUE]

RECURSIVE from_utf8_lossy(_)
from_utf8_lossy(b) ==
    LET high == { i \in 1..Len(b) : b[i] >= 128 }
    IN  IF high = {} THEN b
        ELSE LET i == CHOOSE x \in high : \A y \in high : x <= y
                 part == Utf8Part(b, i)
             IN  SubSeq(b, 1, i - 1)
                 \o (IF part.ok THEN SubSeq(b, i, i + part.len - 1) ELSE REPLACEMENT)
                 \o from_utf8_lossy(SubSeq(b, i + part.len, Len(b)))

stringify(b) == from_utf8_lossy(b)

(***************************************************************************)
(* Page::get_overflow_data (src/paging.rs:173-197): the single record of   *)
(* an overflow page.  An index out of the buffer panics.                   *)
(***************************************************************************)
get_overflow_data(buf) ==
    LET offset_index == TOTAL_HEADER_SIZE
        slot_offset  == read_le(buf, offset_index)
    IN  IF ~InBuffer(buf, slot_offset, SIZE_OF_SLOT_TABLE_ITEM) THEN [st |-> "panic", v |-> << >>]
        ELSE LET pl_len         == read_le(buf, slot_offset)
                 payload_offset == slot_offset + SIZE_PAGE_ID
             IN  IF ~InBuffer(buf, payload_offset, pl_len) THEN [st |-> "panic", v |-> << >>]
                 ELSE [st |-> "ok", v |-> Slice(buf, payload_offset, payload_offset + pl_len)]

(***************************************************************************)
(* Page::get_key_payload, lines 245-294: the part of the payload that is   *)
(* read from the page itself.  The chain is followed by the GetHop step.   *)
(***************************************************************************)
get_key_payload_head(buf, index, dbg) ==
    LET offset_index == TOTAL_HEADER_SIZE + index * 2
        Fail == [st |-> "panic", v |-> << >>]
    IN  IF ~InBuffer(buf, offset_index, SIZE_OF_SLOT_TABLE_ITEM) THEN Fail
        ELSE
        LET slot_offset == read_le(buf, offset_index)
            flag_offset == slot_offset + SIZE_PAGE_ID
            key_len_offset == flag_offset + SIZE_FLAGS
            key_type_offset == key_len_offset + SIZE_PAGE_ID
            key_offset == key_type_offset + SIZE_FLAGS
        IN  IF ~InBuffer(buf, slot_offset, SIZE_OF_SLOT_TABLE_ITEM)
               \/ ~InBuffer(buf, flag_offset, SIZE_FLAGS)
               \/ ~InBuffer(buf, key_len_offset, SIZE_OF_SLOT_TABLE_ITEM) THEN Fail
            ELSE
            LET pl_len  == read_le(buf, slot_offset)
                key_len == read_le(buf, key_len_offset)
                used    == key_len + TOTAL_HEADER_SIZE + 3 * SIZE_PAGE_ID + 2 * SIZE_PAGE_TYPE
            IN  IF used > PAGE_SIZE /\ dbg THEN Fail
                ELSE
                LET max_payload_capacity == IF used <= PAGE_SIZE THEN PAGE_SIZE - used ELSE pl_len
                    payload_offset == key_offset + key_len
                    n == Min(max_payload_capacity, pl_len)
                IN  IF ~InBuffer(buf, payload_offset, n) THEN Fail
                    ELSE [st |-> "ok", v |-> Slice(buf, payload_offset, payload_offset + n)]

(***************************************************************************)
(* Bounds and inputs                                                       *)
(***************************************************************************)
MaxPages == 3
MaxSlots == 2

Threads == {1, 2}
NoThread == 0

\* random_string-like text: lower-case letters that vary with the position
Ascii(n) == [i \in 1..n |-> 97 + (i % 26)]
Fill(n, b) == [i \in 1..n |-> b]
Foo == << 102, 111, 111 >>

\* Key::from_str / Payload::from_str / from_u16 / from_u32 (src/types.rs:179-203)
from_str(bytes) == Payload(bytes, Str)
from_u16(v) == Payload(o16_to_bytes(v), U16)
from_u32(v) == Payload(<< v % 256, (v \div 256) % 256, (v \div 65536) % 256, (v \div 16777216) % 256 >>, U32)

\* payload lengths around the capacity of an empty page for a 3-byte key
FitFoo == PAGE_SIZE - TOTAL_HEADER_SIZE - header_size - 3

Abcdefg == << 97, 98, 99, 100, 101, 102, 103 >>

\* new_leaf calls of one caller: text that leaves room, that fits exactly,
\* that needs one or two overflow pages, a u32 payload, a key longer than
\* an empty page
LeafInputs ==
    { << from_str(Foo), from_str(Ascii(n)) >> :
        n \in {100, FitFoo - 2, FitFoo, FitFoo + 1, 2 * PAGE_SIZE} }
    \cup { << from_str(Abcdefg), from_str(Ascii(FitFoo - 4)) >>,
           << from_str(Foo), from_u32(255) >>,
           << from_str(Fill(FitFoo + 12, 107)), from_str(Ascii(1)) >> }

\* new_leaf calls of concurrent callers
ConcLeafInputs == { << from_str(Foo), from_str(Ascii(FitFoo + 1)) >> }

\* add_key_ref calls: two child ids, a record that nearly fills the page, text
\* that is truncated after it, text one byte longer than an empty page
\* takes, a key longer than an empty page, a record whose size does not fit
\* 16 bits
RefInputs ==
    { << from_str(Foo), from_u16(123) >>,
      << from_str(Foo), from_u16(200) >>,
      << from_str(Fill(2000, 107)), from_str(Ascii(2030)) >>,
      << from_str(Foo), from_str(Ascii(30)) >>,
      << from_str(Foo), from_str(Ascii(FitFoo + 1)) >>,
      << from_str(Fill(FitFoo + 9, 107)), from_str(Ascii(1)) >>,
      << from_str(Foo), from_str(Ascii(U16_MOD - 9)) >> }

\* pages a new_leaf call allocates: one head page and the overflow pages
PagesNeeded(key, payload) ==
    LET k    == Len(key.buffer)
        n    == Len(payload.buffer)
        room == PAGE_SIZE - TOTAL_HEADER_SIZE
        head == IF room >= header_size + k THEN Min(n, room - header_size - k) ELSE n
        per  == room - 2 * SIZE_OF_SLOT_TABLE_ITEM
    IN  1 + ((n - head) + per - 1) \div per

(***************************************************************************)
(* State                                                                   *)
(***************************************************************************)
VARIABLES
    NEXT_PAGE_ID,   \* static mut NEXT_PAGE_ID (src/paging.rs:16)
    CACHE,          \* static CACHE: page id -> page buffer (src/paging.rs:13)
    lock_owner,     \* thread holding the CACHE mutex, NoThread when free
    poisoned,       \* the mutex was held by a thread that panicked
    debug_build,    \* build profile, fixed for the whole run
    pc,             \* position of each thread
    frame,          \* locals of the call a thread is in
    owned,          \* the inner page a thread holds by value (<< >> if none)
    nappends,       \* add_key_ref calls that returned Ok on owned[t]
    records,        \* what those calls appended to owned[t], in call order
    last,           \* the call that returned or panicked last on a thread
    allocated,      \* pages created by Page::new, in order of set_page_id
    leafs,          \* head id returned by new_leaf -> what was stored
    IO_CACHE,       \* static CACHE of the page store (src/io.rs:11)
    io_lock_owner,  \* thread holding the mutex of IO_CACHE, NoThread when free
    io_poisoned,    \* that mutex was held by a thread that panicked
    file,           \* the backing file index.000
    written         \* page id -> buffer of the last io::write of it that returned

vars == << NEXT_PAGE_ID, CACHE, lock_owner, poisoned, debug_build, pc, frame,
           owned, nappends, records, last, allocated, leafs,
           IO_CACHE, io_lock_owner, io_poisoned, file, written >>

\* the state of src/io.rs
STORE == << IO_CACHE, io_lock_owner, io_poisoned, file, written >>

NoPayload == Payload(<< >>, Str)

EmptyFrame ==
    [op |-> "none", key |-> NoPayload, payload |-> NoPayload, ptype |-> DATA_PAGE,
     page |-> << >>, tmp |-> 0, after |-> "idle", current_page_id |-> 0,
     prev_page_id |-> 0, pages |-> << >>, index |-> 0, acc |-> << >>,
     rs |-> 0, need |-> 0, fault |-> "none"]

EmptyLast ==
    [op |-> "none", st |-> "none", pre |-> << >>, post |-> << >>, key |-> << >>,
     payload |-> << >>, residual |-> 0, id |-> 0, pages |-> << >>, out |-> << >>,
     index |-> 0, fault |-> "none", cache_same |-> TRUE, file_same |-> TRUE,
     hit |-> FALSE, in_file |-> FALSE, kept |-> TRUE]

\* index.000 does not exist
NoFile == [exists |-> FALSE, blocks |-> << >>]

\* the statics of src/paging.rs and the callers before any call
InitPaging ==
    /\ NEXT_PAGE_ID = 0
    /\ CACHE = << >>
    /\ lock_owner = NoThread
    /\ poisoned = FALSE
    /\ debug_build \in BOOLEAN
    /\ pc = [t \in Threads |-> "idle"]
    /\ frame = [t \in Threads |-> EmptyFrame]
    /\ owned = [t \in Threads |-> << >>]
    /\ nappends = [t \in Threads |-> 0]
    /\ records = [t \in Threads |-> << >>]
    /\ last = [t \in Threads |-> EmptyLast]
    /\ allocated = << >>
    /\ leafs = << >>

\* the static of src/io.rs before any call
InitIo ==
    /\ IO_CACHE = << >>
    /\ io_lock_owner = NoThread
    /\ io_poisoned = FALSE
    /\ written = << >>

Init == InitPaging /\ InitIo /\ file = NoFile

\* an insert that keeps the value of a key that is already there
Insert_if_absent(map, k, v) ==
    [x \in DOMAIN map \cup {k} |-> IF x \in DOMAIN map THEN map[x] ELSE v]

\* HashMap::insert
Insert(map, k, v) == [x \in DOMAIN map \cup {k} |-> IF x = k THEN v ELSE map[x]]

\* pages that calls in flight will still allocate
InFlight == frame[1].need + frame[2].need
Room(n) == Len(allocated) + InFlight + n <= MaxPages

\* A thread panics: its locals are dropped, the thread id is free for the
\* next caller.
ThreadDies(t, rec) ==
    /\ pc' = [pc EXCEPT ![t] = "idle"]
    /\ frame' = [frame EXCEPT ![t] = EmptyFrame]
    /\ last' = [last EXCEPT ![t] = rec]

\* ... and a mutex guard it holds is released poisoned
ThreadPanics(t, rec) ==
    /\ ThreadDies(t, rec)
    /\ IF lock_owner = t
       THEN lock_owner' = NoThread /\ poisoned' = TRUE
       ELSE UNCHANGED << lock_owner, poisoned >>

(***************************************************************************)
(* Page::new (src/paging.rs:79-98).  The unsafe block reads NEXT_PAGE_ID   *)
(* for set_page_id, reads it again for the increment and stores the sum;   *)
(* nothing orders these accesses with those of another thread.             *)
(***************************************************************************)
NewSetId(t) ==
    /\ pc[t] = "new_id"
    /\ frame' = [frame EXCEPT ![t].page = set_page_id(NewBuffer(frame[t].ptype), NEXT_PAGE_ID),
                              ![t].need = frame[t].need - 1]
    /\ allocated' = Append(allocated, [id |-> NEXT_PAGE_ID, ptype |-> frame[t].ptype, by |-> t])
    /\ pc' = [pc EXCEPT ![t] = "new_load"]
    /\ UNCHANGED << NEXT_PAGE_ID, CACHE, lock_owner, poisoned, debug_build, STORE, owned,
                    nappends, records, last, leafs >>

NewLoad(t) ==
    /\ pc[t] = "new_load"
    /\ frame' = [frame EXCEPT ![t].tmp = NEXT_PAGE_ID]
    /\ pc' = [pc EXCEPT ![t] = "new_store"]
    /\ UNCHANGED << NEXT_PAGE_ID, CACHE, lock_owner, poisoned, debug_build, STORE, owned,
                    nappends, records, last, allocated, leafs >>

NewStore(t) ==
    /\ pc[t] = "new_store"
    /\ IF frame[t].tmp + 1 >= U16_MOD /\ debug_build
       THEN /\ ThreadPanics(t, [EmptyLast EXCEPT !.op = frame[t].op, !.st = "panic"])
            /\ UNCHANGED NEXT_PAGE_ID
       ELSE /\ NEXT_PAGE_ID' = (frame[t].tmp + 1) % U16_MOD
            /\ pc' = [pc EXCEPT ![t] = frame[t].after]
            /\ UNCHANGED << frame, last, lock_owner, poisoned >>
    /\ UNCHANGED << CACHE, debug_build, STORE, owned, nappends, records, allocated, leafs >>

(***************************************************************************)
(* Page::new_inner (src/paging.rs:120-122): the page is returned by value  *)
(***************************************************************************)
NewInner(t) ==
    /\ pc[t] = "idle"
    /\ Room(1)
    /\ frame' = [frame EXCEPT ![t] = [EmptyFrame EXCEPT !.op = "new_inner",
                     !.ptype = INNER_PAGE, !.after = "ni_ret", !.need = 1]]
    /\ pc' = [pc EXCEPT ![t] = "new_id"]
    /\ last' = [last EXCEPT ![t] = EmptyLast]
    /\ UNCHANGED << NEXT_PAGE_ID, CACHE, lock_owner, poisoned, debug_build, STORE, owned,
                    nappends, records, allocated, leafs >>

NewInnerReturn(t) ==
    /\ pc[t] = "ni_ret"
    /\ owned' = [owned EXCEPT ![t] = frame[t].page]
    /\ nappends' = [nappends EXCEPT ![t] = 0]
    /\ records' = [records EXCEPT ![t] = << >>]
    /\ last' = [last EXCEPT ![t] = [EmptyLast EXCEPT !.op = "new_inner", !.st = "ok",
                     !.post = frame[t].page, !.id = page_id(frame[t].page)]]
    /\ frame' = [frame EXCEPT ![t] = EmptyFrame]
    /\ pc' = [pc EXCEPT ![t] = "idle"]
    /\ UNCHANGED << NEXT_PAGE_ID, CACHE, lock_owner, poisoned, debug_build, STORE,
                    allocated, leafs >>

(***************************************************************************)
(* Page::add_key_ref and Page::add_left_most on the page a thread owns     *)
(***************************************************************************)
AddKeyRef(t, key, payload) ==
    /\ pc[t] = "idle"
    /\ owned[t] # << >>
    /\ nappends[t] < MaxSlots
    /\ LET r   == add_key_ref(owned[t], key, payload, debug_build)
           rec == [EmptyLast EXCEPT !.op = "add_key_ref", !.st = r.st, !.pre = owned[t],
                       !.post = r.buf, !.key = key.buffer, !.payload = payload.buffer,
                       !.residual = payload_len(r.payload), !.id = page_id(owned[t])]
       IN  /\ last' = [last EXCEPT ![t] = rec]
           /\ IF r.st = "ok"
              THEN /\ owned' = [owned EXCEPT ![t] = r.buf]
                   /\ nappends' = [nappends EXCEPT ![t] = @ + 1]
                   /\ records' = [records EXCEPT ![t] = Append(@,
                          [key |-> key.buffer, payload |-> payload.buffer,
                           free |-> free_end(owned[t]) - free_start(owned[t]),
                           start |-> free_end(r.buf),
                           residual |-> payload_len(r.payload)])]
              ELSE /\ owned' = [owned EXCEPT ![t] = << >>]
                   /\ nappends' = [nappends EXCEPT ![t] = 0]
                   /\ records' = [records EXCEPT ![t] = << >>]
    /\ UNCHANGED << NEXT_PAGE_ID, CACHE, lock_owner, poisoned, debug_build, STORE, pc, frame,
                    allocated, leafs >>

AddLeftMost(t, left_most) ==
    /\ pc[t] = "idle"
    /\ owned[t] # << >>
    /\ left_most_page_id(owned[t]) # left_most
    /\ owned' = [owned EXCEPT ![t] = set_left_most_page_id(owned[t], left_most)]
    /\ last' = [last EXCEPT ![t] = [EmptyLast EXCEPT !.op = "add_left_most", !.st = "ok",
                     !.pre = owned[t], !.post = owned'[t], !.id = page_id(owned[t])]]
    /\ UNCHANGED << NEXT_PAGE_ID, CACHE, lock_owner, poisoned, debug_build, STORE, pc, frame,
                    nappends, records, allocated, leafs >>

(***************************************************************************)
(* Page::new_leaf (src/paging.rs:100-118).  The CACHE guard is taken on    *)
(* line 101 and dropped when the function returns or unwinds.              *)
(***************************************************************************)
NewLeaf(t, key, payload) ==
    /\ pc[t] = "idle"
    /\ Room(PagesNeeded(key, payload))
    /\ frame' = [frame EXCEPT ![t] = [EmptyFrame EXCEPT !.op = "new_leaf", !.key = key,
                     !.payload = payload, !.ptype = DATA_PAGE, !.after = "nl_head",
                     !.need = PagesNeeded(key, payload)]]
    /\ pc' = [pc EXCEPT ![t] = "nl_lock"]
    /\ last' = [last EXCEPT ![t] = EmptyLast]
    /\ UNCHANGED << NEXT_PAGE_ID, CACHE, lock_owner, poisoned, debug_build, STORE, owned,
                    nappends, records, allocated, leafs >>

\* line 101: CACHE.lock().unwrap()
NewLeafLock(t) ==
    /\ pc[t] = "nl_lock"
    /\ lock_owner = NoThread
    /\ IF poisoned
       THEN ThreadPanics(t, [EmptyLast EXCEPT !.op = "new_leaf", !.st = "panic",
                                !.key = frame[t].key.buffer,
                                !.payload = frame[t].payload.buffer])
       ELSE /\ lock_owner' = t
            /\ pc' = [pc EXCEPT ![t] = "new_id"]
            /\ frame' = [frame EXCEPT ![t].acc = CACHE]
            /\ UNCHANGED << last, poisoned >>
    /\ UNCHANGED << NEXT_PAGE_ID, CACHE, debug_build, STORE, owned, nappends, records, allocated, leafs >>

\* lines 103-107: insert the head page, append the record to the cached page
NewLeafHead(t) ==
    /\ pc[t] = "nl_head"
    /\ LET current_page_id == page_id(frame[t].page)
           cache1 == Insert(CACHE, current_page_id, frame[t].page)
           r == add_key_data(cache1[current_page_id], frame[t].key, frame[t].payload,
                             debug_build)
       IN  /\ CACHE' = [cache1 EXCEPT ![current_page_id] = r.buf]
           /\ IF r.st = "panic"
              THEN ThreadPanics(t, [EmptyLast EXCEPT !.op = "new_leaf", !.st = "panic",
                                       !.pre = frame[t].page, !.post = r.buf,
                                       !.key = frame[t].key.buffer,
                                       !.payload = frame[t].payload.buffer,
                                       !.id = current_page_id,
                                       !.pages = << current_page_id >>,
                                       !.cache_same = (CACHE' = frame[t].acc)])
              ELSE /\ frame' = [frame EXCEPT ![t].payload = r.payload,
                                   ![t].current_page_id = current_page_id,
                                   ![t].prev_page_id = current_page_id,
                                   ![t].pages = << current_page_id >>,
                                   ![t].after = "nl_overflow",
                                   ![t].page = << >>]
                   /\ pc' = [pc EXCEPT ![t] = "nl_while"]
                   /\ UNCHANGED << last, lock_owner, poisoned >>
    /\ UNCHANGED << NEXT_PAGE_ID, debug_build, STORE, owned, nappends, records, allocated, leafs >>

\* line 108, residual.len() > 0: allocate the next overflow page (line 109)
NewLeafWhile(t) ==
    /\ pc[t] = "nl_while"
    /\ payload_len(frame[t].payload) > 0
    /\ pc' = [pc EXCEPT ![t] = "new_id"]
    /\ UNCHANGED << NEXT_PAGE_ID, CACHE, lock_owner, poisoned, debug_build, STORE, frame, owned,
                    nappends, records, last, allocated, leafs >>

\* lines 110-115
NewLeafOverflow(t) ==
    /\ pc[t] = "nl_overflow"
    /\ LET overflow_page_id == page_id(frame[t].page)
           prev_page_id == frame[t].prev_page_id
           r == add_overflow_data(frame[t].page, frame[t].payload, debug_build)
           cache1 == Insert(CACHE, overflow_page_id, r.buf)
       IN  IF r.st = "panic" \/ prev_page_id \notin DOMAIN cache1
           THEN /\ ThreadPanics(t, [EmptyLast EXCEPT !.op = "new_leaf", !.st = "panic",
                                       !.key = frame[t].key.buffer,
                                       !.payload = frame[t].payload.buffer,
                                       !.id = frame[t].current_page_id,
                                       !.pages = frame[t].pages,
                                       !.cache_same =
                                           ((IF r.st = "panic" THEN CACHE ELSE cache1)
                                               = frame[t].acc)])
                /\ CACHE' = IF r.st = "panic" THEN CACHE ELSE cache1
           ELSE /\ CACHE' = [cache1 EXCEPT ![prev_page_id] =
                                 set_right_sibling(cache1[prev_page_id], overflow_page_id)]
                /\ frame' = [frame EXCEPT ![t].payload = r.payload,
                                ![t].prev_page_id = overflow_page_id,
                                ![t].pages = Append(frame[t].pages, overflow_page_id),
                                ![t].page = << >>]
                /\ pc' = [pc EXCEPT ![t] = "nl_while"]
                /\ UNCHANGED << last, lock_owner, poisoned >>
    /\ UNCHANGED << NEXT_PAGE_ID, debug_build, STORE, owned, nappends, records, allocated, leafs >>

\* new_leaf returning with the guard still held
NewLeafReturn_keeps_guard(t) ==
    /\ pc[t] = "nl_while"
    /\ payload_len(frame[t].payload) = 0
    /\ last' = [last EXCEPT ![t] = [EmptyLast EXCEPT !.op = "new_leaf", !.st = "ok",
                     !.key = frame[t].key.buffer, !.payload = frame[t].payload.buffer,
                     !.id = frame[t].current_page_id, !.pages = frame[t].pages]]
    /\ leafs' = Insert(leafs, frame[t].current_page_id,
                       [key |-> frame[t].key.buffer, payload |-> frame[t].payload.buffer,
                        pages |-> frame[t].pages])
    /\ frame' = [frame EXCEPT ![t] = EmptyFrame]
    /\ pc' = [pc EXCEPT ![t] = "idle"]
    /\ UNCHANGED << NEXT_PAGE_ID, CACHE, lock_owner, poisoned, debug_build, STORE, owned,
                    nappends, records, allocated >>

\* line 108 with an empty residual, line 117: Ok(current_page_id)
NewLeafReturn(t) ==
    /\ pc[t] = "nl_while"
    /\ payload_len(frame[t].payload) = 0
    /\ lock_owner' = NoThread
    /\ last' = [last EXCEPT ![t] = [EmptyLast EXCEPT !.op = "new_leaf", !.st = "ok",
                     !.key = frame[t].key.buffer, !.payload = frame[t].payload.buffer,
                     !.id = frame[t].current_page_id, !.pages = frame[t].pages]]
    /\ leafs' = Insert(leafs, frame[t].current_page_id,
                       [key |-> frame[t].key.buffer, payload |-> frame[t].payload.buffer,
                        pages |-> frame[t].pages])
    /\ frame' = [frame EXCEPT ![t] = EmptyFrame]
    /\ pc' = [pc EXCEPT ![t] = "idle"]
    /\ UNCHANGED << NEXT_PAGE_ID, CACHE, poisoned, debug_build, STORE, owned, nappends, records, allocated >>

(***************************************************************************)
(* Page::get_key_payload (src/paging.rs:245-314) on a copy of a page: the  *)
(* copy of a head page is taken from the cache as the callers do it        *)
(* (lines 569-572), or it is the page the thread owns (lines 516, 523).    *)
(***************************************************************************)
GetCached(t, h) ==
    /\ pc[t] = "idle"
    /\ h \in DOMAIN leafs
    /\ lock_owner = NoThread
    /\ IF poisoned \/ h \notin DOMAIN CACHE
       THEN /\ ThreadPanics(t, [EmptyLast EXCEPT !.op = "get_key_payload", !.st = "panic",
                                   !.id = h])
       ELSE /\ frame' = [frame EXCEPT ![t] = [EmptyFrame EXCEPT !.op = "get_key_payload",
                             !.page = CACHE[h], !.current_page_id = h, !.index = 0]]
            /\ pc' = [pc EXCEPT ![t] = "gk_head"]
            /\ last' = [last EXCEPT ![t] = EmptyLast]
            /\ UNCHANGED << lock_owner, poisoned >>
    /\ UNCHANGED << NEXT_PAGE_ID, CACHE, debug_build, STORE, owned, nappends, records, allocated, leafs >>

GetOwned(t, index) ==
    /\ pc[t] = "idle"
    /\ owned[t] # << >>
    /\ index < nappends[t]
    /\ frame' = [frame EXCEPT ![t] = [EmptyFrame EXCEPT !.op = "get_key_payload",
                     !.page = owned[t], !.current_page_id = page_id(owned[t]),
                     !.index = index]]
    /\ pc' = [pc EXCEPT ![t] = "gk_head"]
    /\ last' = [last EXCEPT ![t] = EmptyLast]
    /\ UNCHANGED << NEXT_PAGE_ID, CACHE, lock_owner, poisoned, debug_build, STORE, owned,
                    nappends, records, allocated, leafs >>

GetResult(t, st, bytes) ==
    [EmptyLast EXCEPT !.op = "get_key_payload", !.st = st, !.pre = frame[t].page,
        !.id = frame[t].current_page_id, !.index = frame[t].index, !.out = bytes]

\* lines 246-294
GetHead(t) ==
    /\ pc[t] = "gk_head"
    /\ LET r == get_key_payload_head(frame[t].page, frame[t].index, debug_build)
           current_right_sibling == right_sibling(frame[t].page)
       IN  IF r.st = "panic"
           THEN ThreadPanics(t, GetResult(t, "panic", << >>))
           ELSE IF current_right_sibling = 0
           THEN /\ last' = [last EXCEPT ![t] = GetResult(t, "ok", stringify(r.v))]
                /\ frame' = [frame EXCEPT ![t] = EmptyFrame]
                /\ pc' = [pc EXCEPT ![t] = "idle"]
                /\ UNCHANGED << lock_owner, poisoned >>
           ELSE /\ frame' = [frame EXCEPT ![t].acc = r.v, ![t].rs = current_right_sibling]
                /\ pc' = [pc EXCEPT ![t] = "gk_hop"]
                /\ UNCHANGED << last, lock_owner, poisoned >>
    /\ UNCHANGED << NEXT_PAGE_ID, CACHE, debug_build, STORE, owned, nappends, records, allocated, leafs >>

\* lines 296-313: one turn of the loop; the guard of line 300 lives for the
\* match, so a panic inside it poisons the mutex
GetHop(t) ==
    /\ pc[t] = "gk_hop"
    /\ lock_owner = NoThread
    /\ LET rs == frame[t].rs
           od == IF rs \in DOMAIN CACHE THEN get_overflow_data(CACHE[rs])
                 ELSE [st |-> "panic", v |-> << >>]
       IN  IF poisoned
           THEN ThreadPanics(t, GetResult(t, "panic", << >>))
           ELSE IF od.st = "panic"
           THEN /\ ThreadDies(t, GetResult(t, "panic", << >>))
                /\ poisoned' = TRUE
                /\ UNCHANGED lock_owner
           ELSE LET acc  == frame[t].acc \o od.v
                    next == right_sibling(CACHE[rs])
                IN  IF next = 0
                    THEN /\ last' = [last EXCEPT ![t] = GetResult(t, "ok", stringify(acc))]
                         /\ frame' = [frame EXCEPT ![t] = EmptyFrame]
                         /\ pc' = [pc EXCEPT ![t] = "idle"]
                         /\ UNCHANGED << lock_owner, poisoned >>
                    ELSE /\ frame' = [frame EXCEPT ![t].acc = acc, ![t].rs = next]
                         /\ UNCHANGED << pc, last, lock_owner, poisoned >>
    /\ UNCHANGED << NEXT_PAGE_ID, CACHE, debug_build, STORE, owned, nappends, records, allocated, leafs >>

(***************************************************************************)
(* The page store (src/io.rs).  index.000 is a sequence of blocks of       *)
(* PAGE_SIZE bytes; block b is the file region [b * PAGE_SIZE,             *)
(* (b + 1) * PAGE_SIZE).  Every offset the store seeks to is a multiple of *)
(* PAGE_SIZE.                                                              *)
(***************************************************************************)
PAGING == << NEXT_PAGE_ID, CACHE, lock_owner, poisoned, owned, nappends, records,
             allocated, leafs >>

Max(a, b) == IF a >= b THEN a ELSE b

\* a hole of the file reads as zeros
ZeroBlock == [i \in 1..PAGE_SIZE_USIZE |-> 0]

\* OpenOptions::new().write(true).create(true).open("index.000")
OpenCreate(f) == [f EXCEPT !.exists = TRUE]

\* the buffer lands at the start of the file
WriteAt_start(f, b, buffer) ==
    [f EXCEPT !.blocks = [i \in 1..Max(Len(f.blocks), 1) |->
                             IF i = 1 THEN buffer ELSE f.blocks[i]]]

\* seek to block b and write_all(buffer): the file grows over the hole
WriteAt(f, b, buffer) ==
    [f EXCEPT !.blocks = [i \in 1..Max(Len(f.blocks), b + 1) |->
                             IF i = b + 1 THEN buffer
                             ELSE IF i <= Len(f.blocks) THEN f.blocks[i]
                             ELSE ZeroBlock]]

\* Page::new_from(buffer) and Page::buffer(): a page is its buffer
new_from(buffer) == buffer

\* what fails in the file system during a call
WriteFaults == {"none", "open", "seek", "write"}
ReadFaults == {"none", "open", "seek", "read"}

\* a panic of a store call; a guard of the store's mutex is released poisoned
StorePanics(t, rec) ==
    /\ ThreadDies(t, rec)
    /\ IF io_lock_owner = t
       THEN io_lock_owner' = NoThread /\ io_poisoned' = TRUE
       ELSE UNCHANGED << io_lock_owner, io_poisoned >>

\* the outcome of a store call; cache and f are the cache and the file it
\* leaves, compared with those it found
StoreResult(t, st, cache, f) ==
    [EmptyLast EXCEPT !.op = frame[t].op, !.st = st, !.pre = frame[t].page,
        !.id = frame[t].tmp, !.fault = frame[t].fault,
        !.cache_same = (cache = frame[t].acc), !.file_same = (f = frame[t].pages),
        !.kept = \A b \in 1..Len(frame[t].pages.blocks) :
                     b # frame[t].tmp + 1 =>
                         /\ b <= Len(f.blocks)
                         /\ f.blocks[b] = frame[t].pages.blocks[b]]

\* io::write(page), called with a page held by value
StoreWrite(t, page) ==
    /\ pc[t] = "idle"
    /\ frame' = [frame EXCEPT ![t] = [EmptyFrame EXCEPT !.op = "write", !.page = page,
                     !.tmp = page_id(page), !.acc = IO_CACHE, !.pages = file]]
    /\ pc' = [pc EXCEPT ![t] = "wr_file"]
    /\ last' = [last EXCEPT ![t] = EmptyLast]
    /\ UNCHANGED << PAGING, debug_build, STORE >>

\* src/io.rs:14-18: the offset, open().unwrap(), and the seek and the
\* write_all whose results are dropped
WriteFile(t) ==
    /\ pc[t] = "wr_file"
    /\ \E fault \in WriteFaults :
         LET file_offset == o16_mul(page_id(frame[t].page), PAGE_SIZE)
             block == IF fault = "seek" THEN 0 ELSE file_offset \div PAGE_SIZE
             rec == [StoreResult(t, "panic", IO_CACHE, file) EXCEPT !.fault = fault]
         IN  IF fault = "open"
             THEN StorePanics(t, rec) /\ UNCHANGED file
             ELSE /\ file' = IF fault = "write" THEN OpenCreate(file)
                             ELSE WriteAt(OpenCreate(file), block, frame[t].page)
                  /\ frame' = [frame EXCEPT ![t].fault = fault]
                  /\ pc' = [pc EXCEPT ![t] = "wr_cache"]
                  /\ UNCHANGED << last, io_lock_owner, io_poisoned >>
    /\ UNCHANGED << PAGING, debug_build, IO_CACHE, written >>

\* src/io.rs:19-21: lock, insert, the guard is dropped on return
WriteCache(t) ==
    /\ pc[t] = "wr_cache"
    /\ io_lock_owner = NoThread
    /\ IF io_poisoned
       THEN /\ StorePanics(t, [StoreResult(t, "panic", IO_CACHE, file)
                                   EXCEPT !.fault = "poisoned"])
            /\ UNCHANGED << IO_CACHE, written >>
       ELSE /\ IO_CACHE' = Insert(IO_CACHE, page_id(frame[t].page), frame[t].page)
            /\ written' = [x \in DOMAIN written \cup {page_id(frame[t].page)} |->
                              IF x = page_id(frame[t].page) THEN frame[t].page
                              ELSE written[x]]
            /\ last' = [last EXCEPT ![t] = StoreResult(t, "ok", IO_CACHE', file)]
            /\ frame' = [frame EXCEPT ![t] = EmptyFrame]
            /\ pc' = [pc EXCEPT ![t] = "idle"]
            /\ UNCHANGED << io_lock_owner, io_poisoned >>
    /\ UNCHANGED << PAGING, debug_build, file >>

\* io::read(page_id)
StoreRead(t, id) ==
    /\ pc[t] = "idle"
    /\ frame' = [frame EXCEPT ![t] = [EmptyFrame EXCEPT !.op = "read", !.tmp = id,
                     !.acc = IO_CACHE, !.pages = file]]
    /\ pc' = [pc EXCEPT ![t] = "rd_lock"]
    /\ last' = [last EXCEPT ![t] = EmptyLast]
    /\ UNCHANGED << PAGING, debug_build, STORE >>

\* src/io.rs:25: CACHE.lock().unwrap()
ReadLock(t) ==
    /\ pc[t] = "rd_lock"
    /\ io_lock_owner = NoThread
    /\ IF io_poisoned
       THEN StorePanics(t, [StoreResult(t, "panic", IO_CACHE, file)
                               EXCEPT !.fault = "poisoned"])
       ELSE /\ io_lock_owner' = t
            /\ pc' = [pc EXCEPT ![t] = "rd_get"]
            /\ UNCHANGED << frame, last, io_poisoned >>
    /\ UNCHANGED << PAGING, debug_build, IO_CACHE, file, written >>

\* read_from_disk (src/io.rs:33-41): Some(page), or one of the unwraps
\* panics; the file is created when it is missing
read_from_disk(f, id, fault) ==
    IF fault = "open" THEN [st |-> "panic", v |-> << >>, file |-> f]
    ELSE IF fault = "seek" \/ fault = "read" \/ id + 1 > Len(f.blocks)
    THEN [st |-> "panic", v |-> << >>, file |-> OpenCreate(f)]
    ELSE [st |-> "ok", v |-> new_from(f.blocks[id + 1]), file |-> OpenCreate(f)]

\* src/io.rs:24, 26-30: the lookup under the guard, the disk read on a miss
read(cache, f, id, fault) ==
    LET key == id % U16_MOD
    IN  IF key \in DOMAIN cache
        THEN [st |-> "ok", v |-> cache[key], file |-> f]
        ELSE read_from_disk(f, id, fault)

ReadGet(t) ==
    /\ pc[t] = "rd_get"
    /\ \E fault \in ReadFaults :
         LET r   == read(IO_CACHE, file, frame[t].tmp, fault)
             hit == (frame[t].tmp % U16_MOD) \in DOMAIN IO_CACHE
             rec == [StoreResult(t, r.st, IO_CACHE, r.file) EXCEPT
                        !.out = r.v, !.hit = hit,
                        !.in_file = (frame[t].tmp + 1 <= Len(file.blocks)),
                        !.fault = IF hit THEN "none" ELSE fault]
         IN  /\ file' = r.file
             /\ IF r.st = "panic"
                THEN StorePanics(t, rec)
                ELSE /\ last' = [last EXCEPT ![t] = rec]
                     /\ frame' = [frame EXCEPT ![t] = EmptyFrame]
                     /\ pc' = [pc EXCEPT ![t] = "idle"]
                     /\ io_lock_owner' = NoThread
                     /\ UNCHANGED io_poisoned
    /\ UNCHANGED << PAGING, debug_build, IO_CACHE, written >>

\* io::delete_index (src/io.rs:43-48): remove_file, either outcome is printed
DeleteIndex(t) ==
    /\ pc[t] = "idle"
    /\ file' = NoFile
    /\ last' = [last EXCEPT ![t] = [EmptyLast EXCEPT !.op = "delete_index", !.st = "ok",
                     !.file_same = (file = NoFile)]]
    /\ UNCHANGED << PAGING, debug_build, pc, frame, IO_CACHE, io_lock_owner, io_poisoned,
                    written >>

(***************************************************************************)
(* Specifications.  Spec is one caller using the whole interface; SpecConc *)
(* is two threads allocating pages at the same time.                       *)
(***************************************************************************)
LeftMostIds == {7}

Alloc(t) == NewSetId(t) \/ NewLoad(t) \/ NewStore(t)

Inner(t) ==
    \/ NewInner(t)
    \/ NewInnerReturn(t)
    \/ \E in \in RefInputs : AddKeyRef(t, in[1], in[2])
    \/ \E id \in LeftMostIds : AddLeftMost(t, id)

Leaf(t, inputs) ==
    \/ \E in \in inputs : NewLeaf(t, in[1], in[2])
    \/ NewLeafLock(t)
    \/ NewLeafHead(t)
    \/ NewLeafWhile(t)
    \/ NewLeafOverflow(t)
    \/ NewLeafReturn(t)

Get(t) ==
    \/ \E h \in DOMAIN leafs : GetCached(t, h)
    \/ GetHead(t)
    \/ GetHop(t)

GetOne(t) ==
    \/ \E index \in 0..(MaxSlots - 1) : GetOwned(t, index)
    \/ GetHead(t)

\* the page manager used by one caller
Next == \E t \in {1} : Alloc(t) \/ NewInner(t) \/ NewInnerReturn(t)
                          \/ Leaf(t, LeafInputs) \/ Get(t)

Spec == Init /\ [][Next]_vars

\* the page codec on a page held by value
NextCodec == \E t \in {1} : Alloc(t) \/ Inner(t) \/ GetOne(t)

SpecCodec == Init /\ [][NextCodec]_vars

\* two threads allocating pages
NextConc == \E t \in Threads : Alloc(t) \/ NewInner(t) \/ NewInnerReturn(t)
                                  \/ Leaf(t, ConcLeafInputs)

SpecConc == Init /\ [][NextConc]_vars

\* pages handed to io::write: two versions of the pages 0 and 1
StoreIds == {0, 1}
StorePage(id, left_most) ==
    set_left_most_page_id(set_page_id(NewBuffer(INNER_PAGE), id), left_most)
StorePages == { StorePage(id, left_most) : id \in StoreIds, left_most \in {0} \cup LeftMostIds }

\* ids asked of io::read: the ids written and one that never is
ReadIds == StoreIds \cup {2}

\* index.000 as an earlier run of the program may have left it
PriorFiles == { NoFile, [exists |-> TRUE, blocks |-> << StorePage(0, 0) >>] }

InitStore == InitPaging /\ InitIo /\ file \in PriorFiles

Write(t) ==
    \/ \E page \in StorePages : StoreWrite(t, page)
    \/ WriteFile(t)
    \/ WriteCache(t)

Read(t) ==
    \/ \E id \in ReadIds : StoreRead(t, id)
    \/ ReadLock(t)
    \/ ReadGet(t)

\* the page store used by one caller
NextStore == \E t \in {1} : Write(t) \/ Read(t) \/ DeleteIndex(t)

SpecStore == InitStore /\ [][NextStore]_vars

\* pages whose offsets are below and above 2^16
OffsetIds == {0, 16}
OffsetPages == { StorePage(id, 7) : id \in OffsetIds }

\* writes and reads of those pages by one caller
NextOffsets ==
    \E t \in {1} :
        \/ \E page \in OffsetPages : StoreWrite(t, page)
        \/ WriteFile(t)
        \/ WriteCache(t)
        \/ \E id \in OffsetIds : StoreRead(t, id)
        \/ ReadLock(t)
        \/ ReadGet(t)

SpecOffsets == Init /\ [][NextOffsets]_vars

\* new_leaf calls of the thread that builds chains while another thread
\* reads them: a chain of two pages, and a key longer than an empty page
MixLeafInputs ==
    ConcLeafInputs \cup { << from_str(Fill(FitFoo + 12, 107)), from_str(Ascii(1)) >> }

\* the page they hand to io::write and ask of io::read
MixPages == { StorePage(0, 7) }

\* a step of the thread that builds chains and writes pages to the store
Builder(t) ==
    \/ Alloc(t)
    \/ Leaf(t, MixLeafInputs)
    \/ \E page \in MixPages : StoreWrite(t, page)
    \/ WriteFile(t)
    \/ WriteCache(t)

\* a step of the thread that reads chains and pages of the store
Reader(t) ==
    \/ Get(t)
    \/ \E page \in MixPages : StoreRead(t, page_id(page))
    \/ ReadLock(t)
    \/ ReadGet(t)

NextMix == Builder(1) \/ Reader(2)

\* a builder and a reader using the page manager and the page store
SpecMix == Init /\ [][NextMix]_vars

(***************************************************************************)
(* Properties                                                              *)
(***************************************************************************)
Idle == \A t \in Threads : pc[t] = "idle"

\* the pages that exist when no call is running
LivePages ==
    ({ CACHE[id] : id \in DOMAIN CACHE } \cup { owned[t] : t \in Threads }) \ { << >> }

\* C1: reading slot 0 of the head that new_leaf(key, payload) returned gives
\* exactly the bytes of payload, for every key with
\* |key| + 1 <= PAGE_SIZE - header - H - S and every payload.
C1_RoundTrip ==
    \A t \in Threads :
        ( /\ last[t].op = "get_key_payload"
          /\ last[t].index = 0
          /\ last[t].id \in DOMAIN leafs
          /\ Len(leafs[last[t].id].key) + 1
                <= PAGE_SIZE - TOTAL_HEADER_SIZE - 8 - SIZE_OF_SLOT_TABLE_ITEM )
        => /\ last[t].st = "ok"
           /\ last[t].out = leafs[last[t].id].payload

\* C2: whenever no call is running, every page has
\* header size <= free_start <= free_end <= PAGE_SIZE.
C2_FreeGapBounds ==
    Idle => \A b \in LivePages :
                /\ TOTAL_HEADER_SIZE <= free_start(b)
                /\ free_start(b) <= free_end(b)
                /\ free_end(b) <= PAGE_SIZE

\* C3: num_of_slots of a page is the number of appends that returned Ok,
\* num_of_slots * 2 = free_start - header size, and an append that returns
\* Ok adds 1 to num_of_slots and 2 to free_start.
C3_SlotCount ==
    \A t \in Threads :
        /\ owned[t] # << >> =>
              /\ num_of_slots(owned[t]) = nappends[t]
              /\ num_of_slots(owned[t]) * 2 = free_start(owned[t]) - TOTAL_HEADER_SIZE
        /\ (last[t].op = "add_key_ref" /\ last[t].st = "ok") =>
              /\ num_of_slots(last[t].post) = num_of_slots(last[t].pre) + 1
              /\ free_start(last[t].post) = free_start(last[t].pre) + 2

\* C4: no two pages created by Page::new have the same page id, and when no
\* call is running the counter has been incremented once per created page.
C4_UniqueIds ==
    /\ \A i, j \in 1..Len(allocated) : i # j => allocated[i].id # allocated[j].id
    /\ Idle => NEXT_PAGE_ID = Len(allocated)

\* C5: page id 0 is never given to a page; the first page created has id 1
\* and every later page a greater id.
C5_ZeroReserved ==
    \A i \in 1..Len(allocated) :
        /\ allocated[i].id # 0
        /\ allocated[1].id = 1
        /\ i > 1 => allocated[i].id > allocated[1].id

\* C6: an append to a page with free size F < H + S + key_len + 1 returns a
\* NoSpace error and leaves the page buffer unchanged.
C6_NoSpace ==
    \A t \in Threads :
        ( /\ last[t].op = "add_key_ref"
          /\ free_end(last[t].pre) - free_start(last[t].pre)
                < 8 + SIZE_OF_SLOT_TABLE_ITEM + Len(last[t].key) + 1 )
        => /\ last[t].st = "nospace"
           /\ last[t].post = last[t].pre

\* what an append wrote behind the record header and the key
StoredBytes(rec) ==
    Slice(rec.post, free_end(rec.post) + 6 + Len(rec.key), free_end(rec.pre))

FreeBefore(rec) == free_end(rec.pre) - free_start(rec.pre)

\* C7 (as amended): on a page with free size F and for a key with
\* key_len + 8 <= F, an append stores exactly min(payload_total_len,
\* F - 8 - key_len) payload bytes, the first bytes of the payload, and hands
\* the rest back; 8 is the 6-byte record header plus the 2-byte slot entry.
C7_Truncation ==
    \A t \in Threads :
        ( /\ last[t].op = "add_key_ref"
          /\ FreeBefore(last[t]) >= 8 + Len(last[t].key)
          /\ 6 + Len(last[t].key) + Len(last[t].payload) < 65536 )
        => LET n == Min(Len(last[t].payload), FreeBefore(last[t]) - 8 - Len(last[t].key))
           IN  /\ last[t].st = "ok"
               /\ StoredBytes(last[t]) = SubSeq(last[t].payload, 1, n)
               /\ last[t].residual = Len(last[t].payload) - n

\* C7 as stated: the append stores min(payload_total_len, F - H - S - key_len)
\* payload bytes with H = 8 and S = 2, and hands back the rest.
C7_AsStated ==
    \A t \in Threads :
        ( /\ last[t].op = "add_key_ref"
          /\ last[t].st = "ok"
          /\ FreeBefore(last[t]) >= 8 + 2 + Len(last[t].key) )
        => LET n == Min(Len(last[t].payload), FreeBefore(last[t]) - 8 - 2 - Len(last[t].key))
           IN  /\ Len(StoredBytes(last[t])) = n
               /\ last[t].residual = Len(last[t].payload) - n

\* an append that had to cut the payload
C7_Witness ==
    \E t \in Threads :
        /\ last[t].op = "add_key_ref"
        /\ last[t].st = "ok"
        /\ FreeBefore(last[t]) >= 8 + Len(last[t].key)
        /\ Len(last[t].payload) > FreeBefore(last[t]) - 8 - Len(last[t].key)
        /\ last[t].residual > 0
        /\ Len(StoredBytes(last[t])) > 0

\* the pages reached from id by following right_sibling until it is 0;
\* -1 marks a link that leaves the cache or a walk longer than the cache
RECURSIVE Walk(_, _)
Walk(id, fuel) ==
    IF fuel = 0 \/ id \notin DOMAIN CACHE THEN << -1 >>
    ELSE LET rs == right_sibling(CACHE[id])
         IN  IF rs = 0 THEN << id >> ELSE << id >> \o Walk(rs, fuel - 1)

\* the ids of the n pages created last
LastAllocated(n) ==
    [i \in 1..n |-> allocated[Len(allocated) - n + i].id]

\* C8: when new_leaf returns head h after allocating P0..Pn, every Pi is in
\* the cache under its own id, Pi.right_sibling = P(i+1).page_id,
\* Pn.right_sibling = 0, and following right_sibling from h visits exactly
\* P0..Pn in allocation order and stops.
C8_ChainWellFormed ==
    \A t \in Threads :
        (last[t].op = "new_leaf" /\ last[t].st = "ok") =>
            LET ps == last[t].pages
                n  == Len(ps)
            IN  /\ last[t].id = ps[1]
                /\ ps = LastAllocated(n)
                /\ \A i \in 1..n :
                      /\ ps[i] \in DOMAIN CACHE
                      /\ page_id(CACHE[ps[i]]) = ps[i]
                      /\ right_sibling(CACHE[ps[i]]) = (IF i < n THEN ps[i + 1] ELSE 0)
                /\ \A i, j \in 1..n : i # j => ps[i] # ps[j]
                /\ Walk(last[t].id, Cardinality(DOMAIN CACHE)) = ps

IsFooTwoPages(rec) ==
    /\ rec.op = "new_leaf"
    /\ rec.st = "ok"
    /\ rec.key = Foo
    /\ Len(rec.payload) = 2 * PAGE_SIZE

FreeGap(id) == free_end(CACHE[id]) - free_start(CACHE[id])

\* C9 (as amended): with a single caller, a call new_leaf("foo", payload of 2 * PAGE_SIZE bytes)
\* that returns has built a chain of exactly 3 pages; the head and the first
\* overflow page end with free_start = free_end, the last page holds the
\* remaining 51 bytes and ends with free_end - free_start = 4023.
C9_OverflowChain ==
    \A t \in Threads :
        IsFooTwoPages(last[t]) =>
            LET ps == last[t].pages
            IN  /\ Len(ps) = 3
                /\ Walk(last[t].id, 3) = ps
                /\ FreeGap(ps[1]) = 0
                /\ FreeGap(ps[2]) = 0
                /\ FreeGap(ps[3]) = 4023
                /\ get_overflow_data(CACHE[ps[3]]).v
                     = SubSeq(last[t].payload, 2 * PAGE_SIZE - 50, 2 * PAGE_SIZE)

\* C9 as stated: the chain has exactly 3 pages and every one of them,
\* the last included, ends with free_start = free_end.
C9_AsStated ==
    \A t \in Threads :
        IsFooTwoPages(last[t]) =>
            /\ Len(last[t].pages) = 3
            /\ \A i \in 1..Len(last[t].pages) : FreeGap(last[t].pages[i]) = 0

\* new_leaf("foo", 2 * PAGE_SIZE bytes) has returned
C9_Witness == \E t \in Threads : IsFooTwoPages(last[t]) /\ Len(last[t].pages) = 3

\* new_leaf returned for a key that fits an empty page with its record header
LeafDone(rec) ==
    /\ rec.op = "new_leaf"
    /\ rec.st = "ok"
    /\ Len(rec.key) + 8 <= PAGE_SIZE - TOTAL_HEADER_SIZE

\* C10 (as amended): with a single caller and a key of length k, a payload of exactly
\* PAGE_SIZE - header size - 8 - k bytes (8 = 6-byte record header + 2-byte
\* slot entry) gives a chain of length 1 whose head has free_start =
\* free_end; a shorter payload gives a chain of length 1 with free_end >
\* free_start; overflow pages are allocated exactly for longer payloads.
C10_ExactFit ==
    \A t \in Threads :
        LeafDone(last[t]) =>
            LET k    == Len(last[t].key)
                n    == Len(last[t].payload)
                fit  == PAGE_SIZE - TOTAL_HEADER_SIZE - 8 - k
                head == CACHE[last[t].id]
                one  == Len(last[t].pages) = 1 /\ right_sibling(head) = 0
            IN  /\ n = fit => one /\ free_start(head) = free_end(head)
                /\ n < fit => one /\ free_end(head) - free_start(head) = fit - n
                /\ n > fit => /\ Len(last[t].pages) > 1
                              /\ right_sibling(head) = last[t].pages[2]
                              /\ free_start(head) = free_end(head)

\* C10 as stated: a payload of exactly PAGE_SIZE - header size - H - S - k
\* bytes (H = 8, S = 2) gives a chain of length 1 whose head has
\* free_start = free_end.
C10_AsStated ==
    \A t \in Threads :
        ( /\ LeafDone(last[t])
          /\ Len(last[t].payload)
               = PAGE_SIZE - TOTAL_HEADER_SIZE - 8 - 2 - Len(last[t].key) )
        => /\ Len(last[t].pages) = 1
           /\ right_sibling(CACHE[last[t].id]) = 0
           /\ free_start(CACHE[last[t].id]) = free_end(CACHE[last[t].id])

\* new_leaf returned for a payload that fits its head page exactly
C10_Witness ==
    \E t \in Threads :
        /\ LeafDone(last[t])
        /\ Len(last[t].payload) = PAGE_SIZE - TOTAL_HEADER_SIZE - 8 - Len(last[t].key)
        /\ Len(last[t].pages) = 1
        /\ free_start(CACHE[last[t].id]) = free_end(CACHE[last[t].id])

\* every record appended to the page a thread owns went in whole: the free
\* gap had room for the record and its slot entry
AllFit(t) ==
    \A i \in 1..Len(records[t]) :
        /\ records[t][i].residual = 0
        /\ 8 + Len(records[t][i].key) + Len(records[t][i].payload) <= records[t][i].free

\* the i-th entry of the slot table of a page (i from 0)
SlotEntry(buf, i) == read_le(buf, TOTAL_HEADER_SIZE + i * SIZE_OF_SLOT_TABLE_ITEM)

\* C11: after n appends to one page that all fitted whole, entry i of the
\* slot table is the start address of the i-th appended record, the addresses
\* decrease strictly with i, and reading slot i returns exactly the payload
\* of the i-th appended record.
C11_SlotOrder ==
    \A t \in Threads :
        (owned[t] # << >> /\ AllFit(t)) =>
            /\ num_of_slots(owned[t]) = Len(records[t])
            /\ \A i \in 1..Len(records[t]) :
                   /\ SlotEntry(owned[t], i - 1) = records[t][i].start
                   /\ i > 1 => records[t][i].start < records[t][i - 1].start
            /\ (last[t].op = "get_key_payload" /\ last[t].index < Len(records[t])) =>
                   /\ last[t].st = "ok"
                   /\ last[t].out = records[t][last[t].index + 1].payload

\* the size of every record appended to the page a thread owns
RecordSizes(t) ==
    { 6 + Len(records[t][i].key) + Len(records[t][i].payload) : i \in 1..Len(records[t]) }

\* C12: a fresh page has free_size = PAGE_SIZE - header size, and after n
\* appends of records of one size that all fitted whole, free_size =
\* PAGE_SIZE - header size - n * (2 + record size), the record size being
\* 6 + key_len + payload_len.
C12_FreeSpace ==
    \A t \in Threads :
        (owned[t] # << >> /\ AllFit(t)) =>
            \A size \in IF records[t] = << >> THEN {0} ELSE RecordSizes(t) :
                RecordSizes(t) \subseteq {size} =>
                    /\ free_size(owned[t], debug_build).st = "ok"
                    /\ free_size(owned[t], debug_build).v
                         = PAGE_SIZE - TOTAL_HEADER_SIZE
                             - Len(records[t]) * (SIZE_OF_SLOT_TABLE_ITEM + size)

\* two records of one size were appended to a page
C12_Witness ==
    \E t \in Threads :
        /\ owned[t] # << >>
        /\ AllFit(t)
        /\ Len(records[t]) = 2
        /\ Cardinality(RecordSizes(t)) = 1

\* new_inner has returned a page
IsNewInner(rec) == rec.op = "new_inner" /\ rec.st = "ok"

\* C13 (as amended): a freshly allocated inner page has num_of_slots = 0,
\* free_start = 18, free_end = 4096 and free_size = 4078; the ten header
\* fields, free_start and free_end included, take 18 bytes.
C13_FreshInner ==
    \A t \in Threads :
        IsNewInner(last[t]) =>
            /\ page_type(last[t].post) = INNER_PAGE
            /\ num_of_slots(last[t].post) = 0
            /\ free_start(last[t].post) = 18
            /\ free_end(last[t].post) = 4096
            /\ free_size(last[t].post, debug_build) = Ok(4078)

\* C13 as stated: a freshly allocated inner page has num_of_slots = 0,
\* free_start = 20, free_end = 4096 and free_size = 4076.
C13_AsStated ==
    \A t \in Threads :
        IsNewInner(last[t]) =>
            /\ num_of_slots(last[t].post) = 0
            /\ free_start(last[t].post) = 20
            /\ free_end(last[t].post) = 4096
            /\ free_size(last[t].post, debug_build) = Ok(4076)

\* new_inner has returned an inner page
C13_Witness ==
    \E t \in Threads : IsNewInner(last[t]) /\ page_type(last[t].post) = INNER_PAGE

\* the payload_len field of the record that slot index of a page points to
RecordedPayloadLen(buf, index) == read_le(buf, SlotEntry(buf, index))

\* C14: get_key_payload returns data only when the number of bytes it
\* gathered equals the payload_len recorded in the head record (here for a
\* page without overflow pages: the bytes taken from the record itself).
C14_CorruptChain ==
    \A t \in Threads :
        ( /\ last[t].op = "get_key_payload"
          /\ last[t].st = "ok"
          /\ right_sibling(last[t].pre) = 0 )
        => Len(get_key_payload_head(last[t].pre, last[t].index, debug_build).v)
             = RecordedPayloadLen(last[t].pre, last[t].index)

\* a call of the page store has returned or panicked on thread t
StoreCall(t, op) == last[t].op = op /\ last[t].st # "none"

\* C15: read(k) returns a page whose buffer is byte for byte the buffer of
\* the most recent write of a page with id k; the case is a read on a store
\* whose mutex no earlier panic has poisoned.
C15_ReadYourWrites ==
    \A t \in Threads :
        ( /\ StoreCall(t, "read")
          /\ last[t].id \in DOMAIN written
          /\ last[t].fault # "poisoned" )
        => /\ last[t].st = "ok"
           /\ last[t].out = written[last[t].id]

\* a read has returned a page that was written before
C15_Witness ==
    \E t \in Threads :
        /\ StoreCall(t, "read")
        /\ last[t].st = "ok"
        /\ last[t].id \in DOMAIN written
        /\ last[t].out = written[last[t].id]
        /\ left_most_page_id(last[t].out) # 0

\* C16: when new_leaf has returned, every page of the chain has been written
\* to the page store: read(id) gives the bytes of the page manager's cached
\* page.
C16_FlushBeforeReturn ==
    \A t \in Threads :
        (last[t].op = "new_leaf" /\ last[t].st = "ok") =>
            \A i \in 1..Len(last[t].pages) :
                LET id == last[t].pages[i]
                IN  /\ id \in DOMAIN CACHE
                    /\ read(IO_CACHE, file, id, "none") = [st |-> "ok", v |-> CACHE[id],
                                                         file |-> file]

\* C17: right after delete_index the file is gone and no read returns a page,
\* whatever was written and cached before.
C17_DeleteResets ==
    \A t \in Threads :
        StoreCall(t, "delete_index") =>
            /\ ~file.exists
            /\ \A id \in ReadIds : read(IO_CACHE, file, id, "none").st # "ok"

\* C18: a write during which opening, seeking or writing the file failed does
\* not return normally and leaves the cache as it was.
C18_WriteFailure ==
    \A t \in Threads :
        (StoreCall(t, "write") /\ last[t].fault \in {"open", "seek", "write"}) =>
            /\ last[t].st # "ok"
            /\ last[t].cache_same

\* C19: a read of an id that is neither in the cache nor in the file does not
\* panic, does not create the file and leaves cache and file unchanged.
C19_NotFound ==
    \A t \in Threads :
        ( /\ StoreCall(t, "read")
          /\ last[t].fault = "none"
          /\ ~last[t].hit
          /\ ~last[t].in_file )
        => /\ last[t].st # "panic"
           /\ last[t].cache_same
           /\ last[t].file_same

\* C20: a read that missed the cache and found the page in the file has put
\* the page into the cache under its id before it returns; a hit leaves the
\* cache unchanged.
C20_MissPopulates ==
    \A t \in Threads :
        (StoreCall(t, "read") /\ last[t].st = "ok") =>
            IF last[t].hit
            THEN last[t].cache_same
            ELSE /\ (last[t].id % U16_MOD) \in DOMAIN IO_CACHE
                 /\ IO_CACHE[last[t].id % U16_MOD] = last[t].out

\* C21: a new_leaf call that fails leaves the cache with the page ids and
\* the contents it had before the call, and usable by later calls.
C21_FailureAtomicity ==
    \A t \in Threads :
        (last[t].op = "new_leaf" /\ last[t].st = "panic") =>
            /\ last[t].cache_same
            /\ ~poisoned

\* a write during which nothing failed has returned
CleanWrite(rec) == rec.op = "write" /\ rec.st = "ok" /\ rec.fault = "none"

C23_ReachesDone ==
    \A t \in Threads :
        ( /\ last[t].op = "new_leaf"
          /\ last[t].st # "none"
          /\ Len(last[t].key) + 8 + 1 <= PAGE_SIZE - TOTAL_HEADER_SIZE )
        => last[t].st = "ok"

\* every append to the page a thread owns had room for the record header,
\* the key and the slot entry
KeysFit(t) ==
    \A i \in 1..Len(records[t]) : 8 + Len(records[t][i].key) <= records[t][i].free

\* the payload bytes the i-th append stored in the page
HeadBytes(rec) == SubSeq(rec.payload, 1, Len(rec.payload) - rec.residual)

\* C24: the payload bytes that reading slot i takes from the page are exactly
\* the bytes the i-th append stored there, also when that record was cut
\* because the page already held other records.
C24_ReadInsideRecord ==
    \A t \in Threads :
        ( /\ last[t].op = "get_key_payload"
          /\ last[t].st # "none"
          /\ owned[t] # << >>
          /\ last[t].index < Len(records[t])
          /\ KeysFit(t) )
        => LET r == get_key_payload_head(last[t].pre, last[t].index, debug_build)
           IN  /\ r.st = "ok"
               /\ r.v = HeadBytes(records[t][last[t].index + 1])

\* the kind a page was created as, by the argument of Page::new
CreatedAs(ptype) == IF ptype = DATA_PAGE THEN "LEAF" ELSE "INNER"

\* C25: the page_type byte is 0 for every page created as a data page and 1
\* for every page created as an inner page, and decoding the byte gives the
\* kind the page was created as.
C25_PageTypeTag ==
    /\ \A t \in Threads :
          IsNewInner(last[t]) =>
              /\ page_type(last[t].post) = 1
              /\ PageType_from(page_type(last[t].post)) = CreatedAs(INNER_PAGE)
    /\ \A t \in Threads :
          (last[t].op = "new_leaf" /\ last[t].st = "ok") =>
              \A i \in 1..Len(last[t].pages) :
                  last[t].pages[i] \in DOMAIN CACHE =>
                      /\ page_type(CACHE[last[t].pages[i]]) = 0
                      /\ PageType_from(page_type(CACHE[last[t].pages[i]]))
                           = CreatedAs(DATA_PAGE)

\* positions at which a thread is about to lock a mutex
WaitsPaging(t) == pc[t] \in {"nl_lock", "gk_hop"}
WaitsStore(t) == pc[t] \in {"wr_cache", "rd_lock"}

\* the guards thread t holds
HoldsPaging(t) == lock_owner = t
HoldsStore(t) == io_lock_owner = t

\* the steps that lock a mutex: lines 101 and 300 of paging.rs, lines 19 and
\* 25 of io.rs
LockStep(t) == NewLeafLock(t) \/ GetHop(t) \/ WriteCache(t) \/ ReadLock(t)

\* C26: deadlock freedom.  No thread holds both cache mutexes; a thread
\* that is about to lock a mutex holds none, so it never locks a mutex it
\* holds and never waits while another thread waits for it; a guard is
\* held only inside a call; and a thread that is about to lock a mutex can
\* take that step, or the guard is held by another thread that is inside a
\* call and is not itself about to lock a mutex.
C26_DeadlockFree ==
    \A t \in Threads :
        /\ ~(HoldsPaging(t) /\ HoldsStore(t))
        /\ (WaitsPaging(t) \/ WaitsStore(t)) => (~HoldsPaging(t) /\ ~HoldsStore(t))
        /\ (HoldsPaging(t) \/ HoldsStore(t)) => pc[t] # "idle"
        /\ (WaitsPaging(t) \/ WaitsStore(t)) =>
               \/ ENABLED LockStep(t)
               \/ \E u \in Threads \ {t} :
                     /\ (WaitsPaging(t) /\ HoldsPaging(u)) \/ (WaitsStore(t) /\ HoldsStore(u))
                     /\ pc[u] # "idle"
                     /\ ~(WaitsPaging(u) \/ WaitsStore(u))

\* one thread is at the lock of a chain hop while the other is in new_leaf
\* with the guard, about to insert a head page
C26_Witness ==
    \E t \in Threads, u \in Threads :
        /\ t # u
        /\ pc[t] = "gk_hop"
        /\ HoldsPaging(u)
        /\ pc[u] = "nl_head"

\* following right_sibling from page id through at most n further links
\* stays in the cache and ends at a page whose right_sibling is 0
RECURSIVE ChainEnds(_, _, _)
ChainEnds(cache, id, n) ==
    IF id \notin DOMAIN cache THEN FALSE
    ELSE IF right_sibling(cache[id]) = 0 THEN TRUE
    ELSE IF n = 0 THEN FALSE
    ELSE ChainEnds(cache, right_sibling(cache[id]), n - 1)

\* C27: atomic chain publication.  Whenever the cache can be locked (no
\* thread holds the guard and the mutex is not poisoned), every head page
\* that new_leaf returned and that is in the cache has its complete chain
\* there: every right_sibling link leads to a cached page and the last
\* link is 0.
C27_ChainPublished ==
    (lock_owner = NoThread /\ ~poisoned) =>
        \A h \in DOMAIN leafs :
            h \in DOMAIN CACHE => ChainEnds(CACHE, h, Cardinality(DOMAIN CACHE))
====
